---- MODULE Spec2Model ----
(***************************************************************************)
(* Model of the band-structure pipeline of Aotu_Project.                   *)
(*                                                                         *)
(*  Acquisition  scripts/data_collection/mp_download_fin.py                *)
(*      download_single_material_data  (one pool worker per list entry)    *)
(*      batch_download_bandstructures  (pool + as_completed loop)          *)
(*  Generation   archive/auto_generator_fin5.py                            *)
(*      main, process_single_file                                          *)
(*  Extraction   archive/auto_generator_fin5.py                            *)
(*      process_physics_data, calc_effective_mass                          *)
(*                                                                         *)
(* Each stage has its own specification over the same variables: Spec for  *)
(* acquisition, GenSpec for generation, ExtSpec for feature extraction.    *)
(* FairSpec is an acquisition run under fair scheduling, GenRerunSpec is    *)
(* generation run again and again with a collaborator that always answers, *)
(* ArcSpec is the two archived downloaders.                                 *)
(***************************************************************************)
EXTENDS Integers, Sequences, FiniteSets, TLC

\* ------------------------------------------------------------------ bounds
NumTasks == 2      \* length of material_ids
MaxWorkers == 2    \* max_workers of the pool
MaxLogLines == 1   \* logged faults injected over all runs
NumMaterials == 3  \* materials with a record file in INPUT_DIR
\* MAX_BATCH_SIZE is the batch-size setting of auto_generator_fin5.py (its
\* "配置区域"); the shipped value is 5, the model runs it at a smaller setting.
MAX_BATCH_SIZE == 2
MaxK == 7          \* longest band / k-point sequence of a record

\* ------------------------------------------------------------ acquisition
Ids == {"mp-1", "mp-2"}
Tasks == 1..NumTasks

\* Exception messages, as token sequences; str(e) is the whole sequence.
BenignMarker == "No setyawan_curtarolo"
MsgTimeout == <<"Read", "timed out">>
MsgKpath   == <<BenignMarker, "kpath">>
MsgWrite   == <<"Object", "is not JSON serializable">>
NoMsg      == <<>>
\* faults of the summary request (and of opening the MPRester session)
SummaryMsgs == {MsgTimeout}
\* faults of the band-structure request and of building bs_dump
BsMsgs == {MsgTimeout, MsgKpath}
\* faults of open(output_file,'w') / json.dump
WriteMsgs == {MsgWrite}

\* "No setyawan_curtarolo" in err_msg
ContainsMarker(msg) == \E i \in DOMAIN msg : msg[i] = BenignMarker

\* f"{mp_id}: {err_msg}\n"
LogLine(id, msg) == <<id, ": ">> \o msg \o <<"\n">>

Statuses == {"success", "skipped", "filtered", "failed", "error"}
ZeroResults == [s \in Statuses |-> 0]

VARIABLES
    material_ids,  \* the identifier list handed to batch_download_bandstructures
    file,          \* file[id]: "absent" | "partial" | "complete"  (<id>_bandstructure.json)
    errlog,        \* download_errors.log, a sequence of lines
    write_lock,    \* 0 = free, t = held by call t
    batch,         \* "running" | "raising" | "raised" | "reported" | "killed"
    pc,            \* pc[t]: position of worker call t
    status,        \* status[t]: returned status, "none" before return
    err,           \* err[t]: message of the caught exception
    results,       \* the counters of batch_download_bandstructures
    collected,     \* futures already consumed by the as_completed loop
    \* history of the current call t (observation only)
    existedAtCall, \* record file existed when the call was entered
    sumAns,        \* answer to the summary request: "none"|"docs"|"empty"|"raise"
    bsAns,         \* answer to the band-structure request: "none"|"data"|"null"|"raise"
    nReq,          \* database requests issued by call t
    wrote,         \* call t opened its record file for writing
    appended,      \* number of lines call t appended to the log
    \* history across runs (observation only)
    filteredBefore,\* ids classified 'filtered' in an earlier run
    fileAtStart    \* the record files as the current run found them


\* ------------------------------------------------------------- generation
\* File names are token sequences; "_" and "." are tokens of their own, so
\* that str.split and str.endswith work on them as they do on the text.
Mat(k) == "mp-" \o ToString(k)
RecordName(id) == <<id, "_", "bandstructure", ".", "json">>  \* written by acquisition
PlainName(id)  == <<id, ".", "json">>                        \* a record stored by hand

\* s.split(sep)[0]: the part of s before the first sep (all of s if none)
RECURSIVE SplitFirst(_, _)
SplitFirst(s, sep) ==
    IF s = <<>> \/ Head(s) = sep THEN <<>>
    ELSE <<Head(s)>> \o SplitFirst(Tail(s), sep)

\* s.endswith(suffix)
EndsWith(s, suffix) ==
    /\ Len(s) >= Len(suffix)
    /\ SubSeq(s, Len(s) - Len(suffix) + 1, Len(s)) = suffix

\* mp_id = json_filename.split('_')[0].split('.')[0]
MpIdOf(f) == SplitFirst(SplitFirst(f, "_"), ".")

\* md_path = os.path.join(OUTPUT_DIR, f"{mp_id}.md")
MdName(mp_id) == mp_id \o <<".", "md">>

\* the listings of INPUT_DIR the model starts from: NumMaterials acquired
\* records, with or without a second, hand-stored record of material 1, in
\* ascending or descending order (os.listdir promises no order)
AscListing == [k \in 1..(NumMaterials + 1) |->
                 IF k = 1 THEN PlainName(Mat(1)) ELSE RecordName(Mat(k - 1))]
Reversed(s) == [k \in 1..Len(s) |-> s[Len(s) + 1 - k]]
Listings == {AscListing, Reversed(AscListing), Tail(AscListing)}
InputNames == {AscListing[k] : k \in DOMAIN AscListing}
MdNames == {MdName(MpIdOf(f)) : f \in InputNames}

\* replies of the text-generation collaborator (call_qwen_api): text, or no
\* content: None (bad status, exception) or the empty string
NoneReply == "<None>"
EmptyReply == ""
Texts == {"anchors", "# report"}
Replies == {NoneReply, EmptyReply} \cup Texts
Unset == "<unset>"
\* a test that takes only None for "no content"
Falsy_NoneOnly(r) == r = NoneReply

\* `not resp`   (lines 249, 260)
Falsy(r) == r \in {NoneReply, EmptyReply}

PROMPT_1 == "PROMPT_1"
PROMPT_2 == "PROMPT_2"
SystemMsg == [role |-> "system", content |-> <<"system instruction">>]
ErrorMarker == "Error"

VARIABLES
    all_jsons,     \* the '.json' names of os.listdir(INPUT_DIR), in listing order
    bad,           \* the record files process_physics_data cannot turn into a context
    outdir,        \* OUTPUT_DIR: outdir[name] = "absent" | "partial" | the text written
    gpc,           \* position of main: "start"|"next"|"round1"|"round2"|"save"|"write"|
                   \*                   "done"|"reported"|"killed"
    processed_ids, \* main: ids taken from the '.md' names of OUTPUT_DIR
    pending_files, \* main
    skipped_count_init,
    target_files,  \* main
    idx,           \* main: position of the loop in target_files (i + 1)
    count_success, \* main
    count_failed,  \* main
    cur,           \* process_single_file: json_filename, <<>> outside the loop
    history,       \* process_single_file: the conversation
    resp_1,        \* process_single_file
    resp_2,        \* process_single_file
    \* history of the current invocation (observation only)
    existedAtScan, \* ids whose artifact existed when OUTPUT_DIR was listed
    outdirAtCall,  \* OUTPUT_DIR when the current process_single_file was entered
    callsThis,     \* collaborator calls made by the current process_single_file
    nCalls,        \* collaborator calls made by this invocation
    called,        \* ids a collaborator call was made for in this invocation
    written,       \* artifact names opened for writing in this invocation
    rets           \* rets[k]: what process_single_file(target_files[k]) returned

\* ------------------------------------------------------------- extraction
\* process_physics_data and calc_effective_mass of auto_generator_fin5.py,
\* applied to one record file after another
VARIABLES
    xrec,          \* the record file at json_path
    xpc,           \* position of process_physics_data
    xret,          \* what process_physics_data returned (a text), Unset before
    xcalls,        \* the band-structure helpers called so far for this record
    xmetal,        \* what bs.is_metal() answered: "unknown" | "yes" | "no"
    xgap,          \* bg_data, NoGap before get_band_gap
    xmass,         \* xmass[edge]: the text analyze_band_edge returned for the edge
    xfit,          \* the last calc_effective_mass call, NoFit if none
    xraised        \* the step at which an exception was raised, "none" if none

extVars == <<xrec, xpc, xret, xcalls, xmetal, xgap, xmass, xfit, xraised>>

\* min(a, b), max(a, b), abs(a)
Min(a, b) == IF a < b THEN a ELSE b
Max(a, b) == IF a > b THEN a ELSE b
Abs(a) == IF a < 0 THEN 0 - a ELSE a

\* the keys of bs_dump, the document acquisition writes (lines 71-99 of
\* mp_download_fin.py); 'spin_down' only for a spin-polarized band structure
BsDumpKeys(polarized) ==
    {"material_id", "formula_pretty", "symmetry", "efermi", "nb_bands", "branches",
     "distance", "is_metal", "band_gap", "spin_up", "labels_dict"}
       \cup (IF polarized THEN {"spin_down"} ELSE {})

\* the keys BandStructureSymmLine.from_dict(data) reads, in the order it reads
\* them (the current and the old format read the same ones); a missing key
\* raises KeyError
FromDictKeys == <<"labels_dict", "kpoints", "bands", "lattice_rec", "efermi">>

\* the keys of a document in the library's own format (as_dict), as a record
\* stored by hand would have them, without and with the two metadata fields
AsDictKeys ==
    {"@module", "@class", "lattice_rec", "efermi", "kpoints", "bands", "is_metal",
     "vbm", "cbm", "band_gap", "labels_dict", "is_spin_polarized", "projections",
     "structure", "branches"}

\* the record files feature extraction is applied to: no file, a file that
\* is not JSON, a JSON document that is not an object, and objects with the
\* key sets above
KeySets == {BsDumpKeys(FALSE), BsDumpKeys(TRUE), AsDictKeys,
            AsDictKeys \cup {"material_id", "formula_pretty"}}
Records == {[kind |-> k, keys |-> {}] : k \in {"missing", "invalid", "nondict"}}
              \cup {[kind |-> "dict", keys |-> K] : K \in KeySets}

\* str(data.get(key, 'Unknown'))
Field(rec, key, value) == IF key \in rec.keys THEN value ELSE "Unknown"

\* the first key from_dict misses in the record, "" if none
RECURSIVE FirstMissing(_, _)
FirstMissing(keys, wanted) ==
    IF wanted = <<>> THEN ""
    ELSE IF Head(wanted) \notin keys THEN Head(wanted)
    ELSE FirstMissing(keys, Tail(wanted))

\* the texts process_physics_data returns, as token sequences
NoText == <<>>
\* f"Error: {e}"
ErrorText(msg) == <<ErrorMarker, ": ", msg>>
\* f"Error: Invalid BandStructure Data ({e})"
RebuildErrorText(msg) == <<ErrorMarker, ": ", "Invalid BandStructure Data (", msg, ")">>
\* the metal context (lines 146-151)
MetalContext(id, formula) ==
    <<"1. Material: ", id, formula, "2. Electronic Type: ", "Metal",
      "3. Band Gap: ", "0.0000 eV", "4. Dynamics: ", "N/A (Metallic)">>
\* the semiconductor context (lines 185-200)
SemiContext(id, formula, bg, vbm_mass, cbm_mass) ==
    <<"Computed Physical Properties", "ID: ", id, "Formula: ", formula,
      "Type: ", "Semiconductor/Insulator",
      "Gap: ", bg.energy, " eV",
      "Type: ", IF bg.direct THEN "Direct" ELSE "Indirect",
      "Path: ", IF bg.transition = "" THEN "Unknown" ELSE bg.transition,
      "Holes (VBM): ", vbm_mass, "Electrons (CBM): ", cbm_mass>>

\* answers of bs.get_band_gap(): energy (already formatted .4f), transition
\* ("" for None) and the direct flag
GapAnswers == {[energy |-> "1.1200", transition |-> "\\Gamma-X", direct |-> FALSE],
               [energy |-> "0.5000", transition |-> "", direct |-> TRUE]}
NoGap == [energy |-> "", transition |-> "", direct |-> FALSE]

\* ---- calc_effective_mass
\* window = 5; half = window // 2
WINDOW == 5
HALF == WINDOW \div 2
\* The fitted coefficient a is an integer number of 1e-5: the threshold 1e-4
\* is 10, and 3.81 / a in thousandths is 381000000 / a.
HeavyBelow == 10
MassNumerator == 381000000
AVals == {0 - 38100, 0 - 9, 0, 9, 10, 38100}

\* a window that is cut at the ends of the band and not moved inwards
WindowOf_Cut(num_k, k_idx) ==
    <<Max(0, k_idx - HALF), Min(num_k, k_idx + HALF + 1)>>

\* lines 98-105: the window [start, end) around k_idx
WindowOf(num_k, k_idx) ==
    LET raw == IF k_idx < HALF THEN <<0, WINDOW>>
               ELSE IF k_idx > num_k - HALF - 1 THEN <<num_k - WINDOW, num_k>>
               ELSE <<k_idx - HALF, k_idx + HALF + 1>>
    IN  <<Max(0, raw[1]), Min(num_k, raw[2])>>

\* len(seq[start:end]) for a sequence of n items and start, end >= 0
SliceLen(n, start, end) ==
    LET s == Min(start, n)
        e == Min(end, n)
    IN  IF e > s THEN e - s ELSE 0

\* f"{abs(m_eff):.3f} m_e": m_eff = 3.81 / a, rounded to thousandths
Pad3(r) == IF r < 10 THEN "00" \o ToString(r)
           ELSE IF r < 100 THEN "0" \o ToString(r) ELSE ToString(r)
MassText(a) ==
    LET m == (2 * MassNumerator + Abs(a)) \div (2 * Abs(a))
    IN  ToString(m \div 1000) \o "." \o Pad3(m % 1000) \o " m_e"

\* an exception leaving a block
Raised == "<raised>"

\* a calc_effective_mass that divides before it tests the coefficient
MassOf_DivideFirst(a) ==
    IF a = 0 THEN Raised
    ELSE IF Abs(a) < HeavyBelow THEN "Heavy (>10 m_e)"
    ELSE MassText(a)

\* lines 114-120: a = coeffs[0]; the threshold test; m_eff = 3.81 / a
MassOf(a) ==
    IF Abs(a) < HeavyBelow THEN "Heavy (>10 m_e)"
    ELSE MassText(a)

\* a calc_effective_mass that fits whatever number of points it is given
CalcBody_NoPointsCheck(bandOk, num_k, nd, k_idx, fitOk, a) ==
    IF ~bandOk THEN Raised
    ELSE LET w == WindowOf(num_k, k_idx)
             ylen == SliceLen(num_k, w[1], w[2])
             xlen == SliceLen(nd, w[1], w[2])
         IN  IF ylen # xlen \/ ~fitOk THEN Raised
             ELSE MassOf(a)

\* the try block of calc_effective_mass (lines 90-120). bandOk: the lookup
\* bs.bands[spin][band_idx] succeeds; num_k = len(energies); nd =
\* len(bs.distance); fitOk: np.polyfit returns (it raises, too, when x and y
\* differ in length); a: the fitted quadratic coefficient
CalcBody(bandOk, num_k, nd, k_idx, fitOk, a) ==
    IF ~bandOk THEN Raised
    ELSE LET w == WindowOf(num_k, k_idx)
             ylen == SliceLen(num_k, w[1], w[2])
             xlen == SliceLen(nd, w[1], w[2])
         IN  IF xlen < 3 THEN "N/A (Points<3)"
             ELSE IF ylen # xlen \/ ~fitOk THEN Raised
             ELSE MassOf(a)

\* The inputs of a call that the call does not read are held at one value:
\* nothing but the lookup when it fails, no fit result when the fit is not
\* reached, no coefficient when the fit raises.
Canonical(bandOk, num_k, nd, k_idx, fitOk, a) ==
    LET w == WindowOf(num_k, k_idx)
        reached == /\ bandOk
                   /\ SliceLen(nd, w[1], w[2]) >= 3
                   /\ SliceLen(num_k, w[1], w[2]) = SliceLen(nd, w[1], w[2])
    IN  /\ ~bandOk => (num_k = 0 /\ nd = 1)
        /\ ~reached => fitOk
        /\ ~(reached /\ fitOk) => a = 0

\* a calc_effective_mass without its try block
CalcEffectiveMass_NoTry(bandOk, num_k, nd, k_idx, fitOk, a) ==
    CalcBody(bandOk, num_k, nd, k_idx, fitOk, a)

\* calc_effective_mass: `except Exception: return "CalcErr"`
CalcEffectiveMass(bandOk, num_k, nd, k_idx, fitOk, a) ==
    LET r == CalcBody(bandOk, num_k, nd, k_idx, fitOk, a)
    IN  IF r = Raised THEN "CalcErr" ELSE r

\* the helpers of the band structure and of this module that a run of
\* process_physics_data may call
Helpers == {"from_dict", "is_metal", "get_band_gap", "get_vbm", "get_cbm",
            "calc_effective_mass"}
Edges == {"vbm", "cbm"}
NoMass == [e \in Edges |-> ""]
NoFit == [edge |-> "", band |-> FALSE, num_k |-> 0, nd |-> 0, k_idx |-> 0,
          start |-> 0, end |-> 0, fit |-> FALSE, a |-> 0, fault |-> FALSE]

genDisk == <<all_jsons, bad, outdir>>
mainVars == <<processed_ids, pending_files, skipped_count_init, target_files, idx,
              count_success, count_failed>>
fileVars == <<cur, history, resp_1, resp_2>>
genHist == <<existedAtScan, outdirAtCall, callsThis, nCalls, called, written, rets>>
genVars == <<genDisk, gpc, mainVars, fileVars, genHist>>

diskVars == <<file, errlog>>
callVars == <<pc, status, err, existedAtCall, sumAns, bsAns, nReq, wrote, appended>>
loopVars == <<batch, results, collected>>
acqVars == <<material_ids, diskVars, write_lock, callVars, loopVars, filteredBefore, fileAtStart>>

vars == <<acqVars, genVars, extVars>>

\* the state of the calls when a batch has just submitted them
Queued      == [t \in Tasks |-> "queued"]
NoStatus    == [t \in Tasks |-> "none"]
NoErr       == [t \in Tasks |-> NoMsg]
AllFalse    == [t \in Tasks |-> FALSE]
AllZero     == [t \in Tasks |-> 0]

AcqInit ==
    \* the two identifiers are interchangeable: the list starts with "mp-1"
    /\ material_ids \in {l \in [Tasks -> Ids] : l[1] = "mp-1"}
    /\ file = [i \in Ids |-> "absent"]
    /\ errlog = <<>>
    /\ write_lock = 0
    /\ batch = "running"
    /\ results = ZeroResults
    /\ collected = {}
    /\ filteredBefore = {}
    /\ fileAtStart = [i \in Ids |-> "absent"]
    /\ pc = Queued
    /\ status = NoStatus
    /\ err = NoErr
    /\ existedAtCall = AllFalse
    /\ sumAns = NoStatus
    /\ bsAns = NoStatus
    /\ nReq = AllZero
    /\ wrote = AllFalse
    /\ appended = AllZero

\* os.path.exists(output_file)
Exists(f) == f # "absent"

\* a lock that never blocks
LockFree_Always == TRUE

\* acquiring write_lock: `with write_lock:` blocks until the lock is free
LockFree == write_lock = 0

\* the calls a pool thread is currently executing
Active == {t \in Tasks : pc[t] \notin {"queued", "done", "raised", "dead"}}

\* the identifiers some call of the current run has classified 'filtered'
FilteredNow == {material_ids[t] : t \in {u \in Tasks : status[u] = "filtered"}}

\* a loop that leaves the calls answered 'skipped' out of the statistics
Count_NoSkipped(t, s) ==
    IF batch = "running"
      THEN /\ results' = IF s \in DOMAIN results \ {"skipped"}
                           THEN [results EXCEPT ![s] = @ + 1]
                           ELSE results
           /\ collected' = collected \cup {t}
           /\ UNCHANGED batch
      ELSE UNCHANGED loopVars

\* for future in as_completed(...): res = future.result(); status = res["status"];
\* the counter of the status is incremented (an unknown status counts as error).
\* The loop shares no state with the workers, so it is taken to consume a
\* future in the step that completes it; after future.result() has raised
\* the loop is gone and nothing is counted any more.
Count(t, s) ==
    IF batch = "running"
      THEN /\ results' = IF s \in DOMAIN results
                           THEN [results EXCEPT ![s] = @ + 1]
                           ELSE [results EXCEPT !["error"] = @ + 1]
           /\ collected' = collected \cup {t}
           /\ UNCHANGED batch
      ELSE UNCHANGED loopVars

\* `return {"mp_id": mp_id, "status": s, ...}` of call t
Return(t, s) ==
    /\ pc' = [pc EXCEPT ![t] = "done"]
    /\ status' = [status EXCEPT ![t] = s]
    /\ Count(t, s)

\* Fault injection is bounded: a fault that will be logged is raised only while
\* the log, with the appends already on their way, is below MaxLogLines.
FaultAllowed(m) ==
    \/ ContainsMarker(m)
    \/ Len(errlog) + Cardinality({u \in Tasks : pc[u] \in {"lockl", "append"}}) < MaxLogLines

\* An exception with message m is raised inside the try block of call t and
\* caught by `except Exception as e`: err_msg = str(e); a message holding the
\* marker returns 'filtered', any other goes on to the log append.
Raise(t, m) ==
    /\ FaultAllowed(m)
    /\ err' = [err EXCEPT ![t] = m]
    /\ IF ContainsMarker(m)
         THEN Return(t, "filtered")
         ELSE /\ pc' = [pc EXCEPT ![t] = "lockl"]
              /\ UNCHANGED <<status, loopVars>>

\* A pool thread takes the next queued call (FIFO work queue, at most
\* MaxWorkers threads) and enters download_single_material_data:
\* os.makedirs(output_dir, exist_ok=True) on the directory paths.py has
\* already created, and the computation of output_file.
Enter(t) ==
    /\ batch \in {"running", "raising"}
    /\ pc[t] = "queued"
    /\ \A u \in Tasks : u < t => pc[u] # "queued"
    /\ Cardinality(Active) < MaxWorkers
    /\ pc' = [pc EXCEPT ![t] = "check"]
    /\ existedAtCall' = [existedAtCall EXCEPT ![t] = Exists(file[material_ids[t]])]
    /\ UNCHANGED <<extVars, genVars, material_ids, diskVars, write_lock, loopVars, filteredBefore, fileAtStart,
                   status, err, sumAns, bsAns, nReq, wrote, appended>>

\* a skip test that never fires: every call fetches
Skip_Never(t) == FALSE

\* a skip test that also consults the identifiers classified 'filtered' earlier
Skip_Ledger(t) == Exists(file[material_ids[t]]) \/ material_ids[t] \in filteredBefore

\* a resume test that looks for any record file in the directory
Skip_AnyFile(t) == \E i \in Ids : Exists(file[i])

\* the resume test of line 39: os.path.exists(output_file)
Skip(t) == Exists(file[material_ids[t]])

\* if os.path.exists(output_file): return skipped
ExistsCheck(t) ==
    /\ pc[t] = "check"
    /\ IF Skip(t)
         THEN Return(t, "skipped")
         ELSE /\ pc' = [pc EXCEPT ![t] = "summary"]
              /\ UNCHANGED <<status, loopVars>>
    /\ UNCHANGED <<extVars, genVars, material_ids, diskVars, write_lock, filteredBefore, fileAtStart,
                   err, existedAtCall, sumAns, bsAns, nReq, wrote, appended>>

\* a not-found test that misses the empty answer
NotFound_Never(ans) == FALSE

\* if not summary_docs   (line 53)
NotFound(ans) == ans = "empty"

\* with MPRester(...) as mpr: summary_docs = mpr.materials.summary.search(...)
\* The database answers with documents, with nothing, or the request raises.
SummarySearch(t) ==
    /\ pc[t] = "summary"
    /\ nReq' = [nReq EXCEPT ![t] = @ + 1]
    /\ \E ans \in {"docs", "empty", "raise"} :
         /\ sumAns' = [sumAns EXCEPT ![t] = ans]
         /\ IF ans = "raise"
              THEN \E m \in SummaryMsgs : Raise(t, m)
              ELSE IF NotFound(ans)
                     THEN /\ Return(t, "failed")
                          /\ UNCHANGED err
                     ELSE /\ pc' = [pc EXCEPT ![t] = "bs"]
                          /\ UNCHANGED <<status, err, loopVars>>
    /\ UNCHANGED <<extVars, genVars, material_ids, diskVars, write_lock, filteredBefore, fileAtStart,
                   existedAtCall, bsAns, wrote, appended>>

\* a null test that misses the null answer
NoBands_Never(ans) == FALSE

\* if bs_sc is None   (line 65)
NoBands(ans) == ans = "null"

\* bs_sc = mpr.get_bandstructure_by_material_id(mp_id), then the construction
\* of bs_dump (lines 71-99), which touches no shared state and can only
\* succeed or raise.
GetBandstructure(t) ==
    /\ pc[t] = "bs"
    /\ nReq' = [nReq EXCEPT ![t] = @ + 1]
    /\ \E ans \in {"data", "null", "raise"} :
         /\ bsAns' = [bsAns EXCEPT ![t] = ans]
         /\ IF ans = "raise"
              THEN \E m \in BsMsgs : Raise(t, m)
              ELSE IF NoBands(ans)
                     THEN /\ Return(t, "filtered")
                          /\ UNCHANGED err
                     ELSE /\ pc' = [pc EXCEPT ![t] = "lockw"]
                          /\ UNCHANGED <<status, err, loopVars>>
    /\ UNCHANGED <<extVars, genVars, material_ids, diskVars, write_lock, filteredBefore, fileAtStart,
                   existedAtCall, sumAns, wrote, appended>>

\* with write_lock:   (record write)
AcquireWrite(t) ==
    /\ pc[t] = "lockw"
    /\ LockFree
    /\ write_lock' = t
    /\ pc' = [pc EXCEPT ![t] = "open"]
    /\ UNCHANGED <<extVars, genVars, material_ids, diskVars, loopVars, filteredBefore, fileAtStart, status, err,
                   existedAtCall, sumAns, bsAns, nReq, wrote, appended>>

\* open(output_file, 'w'): creates or truncates the file; if it raises, both
\* with-blocks are left and the lock is released.
OpenRecord(t) ==
    /\ pc[t] = "open"
    /\ \/ /\ file' = [file EXCEPT ![material_ids[t]] = "partial"]
          /\ wrote' = [wrote EXCEPT ![t] = TRUE]
          /\ pc' = [pc EXCEPT ![t] = "dump"]
          /\ UNCHANGED <<write_lock, err, status, loopVars>>
       \/ /\ \E m \in WriteMsgs : Raise(t, m)
          /\ write_lock' = 0
          /\ UNCHANGED <<file, wrote>>
    /\ UNCHANGED <<extVars, genVars, material_ids, errlog, filteredBefore, fileAtStart, existedAtCall, sumAns,
                   bsAns, nReq, appended>>

\* json.dump(bs_dump, f, indent=4), close, release, return success; or
\* json.dump raises part-way: the file is closed as it is, the lock released.
DumpRecord(t) ==
    /\ pc[t] = "dump"
    /\ write_lock' = 0
    /\ \/ /\ file' = [file EXCEPT ![material_ids[t]] = "complete"]
          /\ Return(t, "success")
          /\ UNCHANGED err
       \/ /\ \E m \in WriteMsgs : Raise(t, m)
          /\ UNCHANGED file
    /\ UNCHANGED <<extVars, genVars, material_ids, errlog, filteredBefore, fileAtStart, existedAtCall, sumAns,
                   bsAns, nReq, wrote, appended>>

\* with write_lock:   (error log)
AcquireLog(t) ==
    /\ pc[t] = "lockl"
    /\ LockFree
    /\ write_lock' = t
    /\ pc' = [pc EXCEPT ![t] = "append"]
    /\ UNCHANGED <<extVars, genVars, material_ids, diskVars, loopVars, filteredBefore, fileAtStart, status, err,
                   existedAtCall, sumAns, bsAns, nReq, wrote, appended>>

\* with open("download_errors.log", "a") as log: log.write(...); return error.
\* If the open raises, nothing is appended, the lock is released and the
\* exception leaves download_single_material_data (no enclosing try); the
\* loop's future.result() re-raises it.
AppendLog(t) ==
    /\ pc[t] = "append"
    /\ write_lock' = 0
    /\ \/ /\ errlog' = Append(errlog, LogLine(material_ids[t], err[t]))
          /\ appended' = [appended EXCEPT ![t] = @ + 1]
          /\ Return(t, "error")
       \/ /\ pc' = [pc EXCEPT ![t] = "raised"]
          /\ batch' = "raising"
          /\ UNCHANGED <<errlog, appended, status, results, collected>>
    /\ UNCHANGED <<extVars, genVars, material_ids, file, filteredBefore, fileAtStart, err, existedAtCall, sumAns,
                   bsAns, nReq, wrote>>

\* the exception leaves the `with ThreadPoolExecutor` block: shutdown(wait=True)
\* lets every submitted call finish, then the exception leaves the batch.
Abort ==
    /\ batch = "raising"
    /\ \A t \in Tasks : pc[t] \in {"done", "raised"}
    /\ batch' = "raised"
    /\ UNCHANGED <<extVars, genVars, material_ids, diskVars, write_lock, callVars, results, collected,
                   filteredBefore, fileAtStart>>

\* the loop has consumed every future: the final report is printed
Report ==
    /\ batch = "running"
    /\ collected = Tasks
    /\ batch' = "reported"
    /\ UNCHANGED <<extVars, genVars, material_ids, diskVars, write_lock, callVars, results, collected,
                   filteredBefore, fileAtStart>>

\* the process is terminated from outside: every thread stops where it is,
\* nothing of the run survives but the files
Kill ==
    /\ batch \in {"running", "raising"}
    /\ batch' = "killed"
    /\ pc' = [t \in Tasks |-> "dead"]
    /\ write_lock' = 0
    /\ status' = NoStatus
    /\ err' = NoErr
    /\ existedAtCall' = AllFalse
    /\ sumAns' = NoStatus
    /\ bsAns' = NoStatus
    /\ nReq' = AllZero
    /\ wrote' = AllFalse
    /\ appended' = AllZero
    /\ results' = ZeroResults
    /\ collected' = {}
    /\ filteredBefore' = filteredBefore \cup FilteredNow
    /\ fileAtStart' = file
    /\ UNCHANGED <<extVars, genVars, material_ids, diskVars>>

\* the script is started again on the same identifier list
StartRun ==
    /\ batch \in {"raised", "reported", "killed"}
    /\ batch' = "running"
    /\ results' = ZeroResults
    /\ collected' = {}
    /\ write_lock' = 0
    /\ filteredBefore' = filteredBefore \cup FilteredNow
    /\ fileAtStart' = file
    /\ pc' = Queued
    /\ status' = NoStatus
    /\ err' = NoErr
    /\ existedAtCall' = AllFalse
    /\ sumAns' = NoStatus
    /\ bsAns' = NoStatus
    /\ nReq' = AllZero
    /\ wrote' = AllFalse
    /\ appended' = AllZero
    /\ UNCHANGED <<extVars, genVars, material_ids, diskVars>>

\* the generation stage is not running
GenIdle ==
    /\ all_jsons = <<>>
    /\ bad = {}
    /\ outdir = [n \in MdNames |-> "absent"]
    /\ gpc = "off"
    /\ processed_ids = {}
    /\ pending_files = <<>>
    /\ skipped_count_init = 0
    /\ target_files = <<>>
    /\ idx = 1
    /\ count_success = 0
    /\ count_failed = 0
    /\ cur = <<>>
    /\ history = <<>>
    /\ resp_1 = Unset
    /\ resp_2 = Unset
    /\ existedAtScan = {}
    /\ outdirAtCall = [n \in MdNames |-> "absent"]
    /\ callsThis = 0
    /\ nCalls = 0
    /\ called = {}
    /\ written = {}
    /\ rets = <<>>

\* feature extraction is not running
ExtIdle ==
    /\ xrec = [kind |-> "missing", keys |-> {}]
    /\ xpc = "off"
    /\ xret = NoText
    /\ xcalls = {}
    /\ xmetal = "unknown"
    /\ xgap = NoGap
    /\ xmass = NoMass
    /\ xfit = NoFit
    /\ xraised = "none"

Init == AcqInit /\ GenIdle /\ ExtIdle

Worker(t) ==
    \/ Enter(t)
    \/ ExistsCheck(t)
    \/ SummarySearch(t)
    \/ GetBandstructure(t)
    \/ AcquireWrite(t)
    \/ OpenRecord(t)
    \/ DumpRecord(t)
    \/ AcquireLog(t)
    \/ AppendLog(t)

Next ==
    \/ \E t \in Tasks : Worker(t)
    \/ Abort
    \/ Report
    \/ Kill
    \/ StartRun

Spec == Init /\ [][Next]_vars

\* -------------------------------------------- the archived downloaders
\* archive/mp_download_test.py and archive/mp_download_test2.py, over the
\* variables of acquisition. The two scripts differ in the results dictionary
\* and in the except clause; the dictionary a run started with tells which
\* script is running.
ArcStatuses == {"success", "skipped", "failed", "error"}
\* mp_download_test.py: results = {"success": 0, "failed": 0, "skipped": 0}
ArcResults1 == [s \in {"success", "failed", "skipped"} |-> 0]
\* mp_download_test2.py: results = {"success": 0, "failed": 0, "skipped": 0, "error": 0}
ArcResults2 == [s \in {"success", "failed", "skipped", "error"} |-> 0]
IsTest2 == "error" \in DOMAIN results

\* what no step of a worker of the archived scripts changes
arcRest == <<extVars, genVars, material_ids, filteredBefore, fileAtStart, existedAtCall,
             sumAns, nReq, wrote, appended>>

\* result = future.result(); results[result["status"]] += 1: a status without
\* a counter raises KeyError in the loop, which leaves the batch
ArcCount(t, s) ==
    IF batch = "running"
      THEN IF s \in DOMAIN results
             THEN /\ results' = [results EXCEPT ![s] = @ + 1]
                  /\ collected' = collected \cup {t}
                  /\ UNCHANGED batch
             ELSE /\ batch' = "raising"
                  /\ UNCHANGED <<results, collected>>
      ELSE UNCHANGED loopVars

\* `return {"mp_id": mp_id, "status": s, ...}` of call t
ArcReturn(t, s) ==
    /\ pc' = [pc EXCEPT ![t] = "done"]
    /\ status' = [status EXCEPT ![t] = s]
    /\ ArcCount(t, s)

\* `except Exception as e`: mp_download_test.py always appends to the log;
\* mp_download_test2.py returns 'error' without a log line for a message
\* holding the marker
ArcRaise(t, m) ==
    /\ err' = [err EXCEPT ![t] = m]
    /\ IF IsTest2 /\ ContainsMarker(m)
         THEN ArcReturn(t, "error")
         ELSE /\ pc' = [pc EXCEPT ![t] = "lockl"]
              /\ UNCHANGED <<status, loopVars>>

\* a pool thread takes the next queued call: os.makedirs, output_file
ArcEnter(t) == Enter(t)

\* if os.path.exists(output_file): return skipped
ArcExistsCheck(t) ==
    /\ pc[t] = "check"
    /\ IF Exists(file[material_ids[t]])
         THEN ArcReturn(t, "skipped")
         ELSE /\ pc' = [pc EXCEPT ![t] = "bs"]
              /\ UNCHANGED <<status, loopVars>>
    /\ UNCHANGED <<arcRest, diskVars, write_lock, err, bsAns>>

\* bs_sc = mpr.get_bandstructure_by_material_id(mp_id); None returns failed;
\* the construction of bs_dump succeeds or raises
ArcGetBandstructure(t) ==
    /\ pc[t] = "bs"
    /\ \E ans \in {"data", "null", "raise"} :
         /\ bsAns' = [bsAns EXCEPT ![t] = ans]
         /\ IF ans = "raise"
              THEN \E m \in BsMsgs : ArcRaise(t, m)
              ELSE IF ans = "null"
                     THEN /\ ArcReturn(t, "failed")
                          /\ UNCHANGED err
                     ELSE /\ pc' = [pc EXCEPT ![t] = "lockw"]
                          /\ UNCHANGED <<status, err, loopVars>>
    /\ UNCHANGED <<arcRest, diskVars, write_lock>>

\* with write_lock:   (record write)
ArcAcquireWrite(t) == AcquireWrite(t)

\* open(output_file, 'w')
ArcOpenRecord(t) ==
    /\ pc[t] = "open"
    /\ \/ /\ file' = [file EXCEPT ![material_ids[t]] = "partial"]
          /\ pc' = [pc EXCEPT ![t] = "dump"]
          /\ UNCHANGED <<write_lock, err, status, loopVars>>
       \/ /\ \E m \in WriteMsgs : ArcRaise(t, m)
          /\ write_lock' = 0
          /\ UNCHANGED file
    /\ UNCHANGED <<arcRest, errlog, bsAns>>

\* json.dump(bs_dump, f, indent=4); return success
ArcDumpRecord(t) ==
    /\ pc[t] = "dump"
    /\ write_lock' = 0
    /\ \/ /\ file' = [file EXCEPT ![material_ids[t]] = "complete"]
          /\ ArcReturn(t, "success")
          /\ UNCHANGED err
       \/ /\ \E m \in WriteMsgs : ArcRaise(t, m)
          /\ UNCHANGED file
    /\ UNCHANGED <<arcRest, errlog, bsAns>>

\* with write_lock:   (error log)
ArcAcquireLog(t) == AcquireLog(t)

\* the log append and `return {..., "status": "error", ...}`; an append that
\* raises leaves the call
ArcAppendLog(t) ==
    /\ pc[t] = "append"
    /\ write_lock' = 0
    /\ \/ /\ errlog' = Append(errlog, LogLine(material_ids[t], err[t]))
          /\ ArcReturn(t, "error")
       \/ /\ pc' = [pc EXCEPT ![t] = "raised"]
          /\ batch' = "raising"
          /\ UNCHANGED <<errlog, status, results, collected>>
    /\ UNCHANGED <<arcRest, file, err, bsAns>>

ArcInit ==
    /\ GenIdle
    /\ ExtIdle
    /\ material_ids \in {l \in [Tasks -> Ids] : l[1] = "mp-1"}
    /\ file \in [Ids -> {"absent", "complete"}]
    /\ errlog = <<>>
    /\ write_lock = 0
    /\ batch = "running"
    /\ results \in {ArcResults1, ArcResults2}
    /\ collected = {}
    /\ filteredBefore = {}
    /\ fileAtStart = file
    /\ pc = Queued
    /\ status = NoStatus
    /\ err = NoErr
    /\ existedAtCall = AllFalse
    /\ sumAns = NoStatus
    /\ bsAns = NoStatus
    /\ nReq = AllZero
    /\ wrote = AllFalse
    /\ appended = AllZero

ArcWorker(t) ==
    \/ ArcEnter(t)
    \/ ArcExistsCheck(t)
    \/ ArcGetBandstructure(t)
    \/ ArcAcquireWrite(t)
    \/ ArcOpenRecord(t)
    \/ ArcDumpRecord(t)
    \/ ArcAcquireLog(t)
    \/ ArcAppendLog(t)

ArcNext ==
    \/ \E t \in Tasks : ArcWorker(t)
    \/ Abort
    \/ Report

ArcSpec == ArcInit /\ [][ArcNext]_vars

\* ---- a run that is left alone: nobody terminates the process, every pool
\* thread that can take a step takes it in the end (each database request
\* returns or raises), and the loop of batch_download_bandstructures goes on
\* once the futures are done
RunNext ==
    \/ \E t \in Tasks : Worker(t)
    \/ Abort
    \/ Report
    \/ StartRun

FairSpec ==
    /\ Init
    /\ [][RunNext]_vars
    /\ \A t \in Tasks : WF_vars(Worker(t))
    /\ WF_vars(Abort)
    /\ WF_vars(Report)

\* ------------------------------------------------- generation: operations
\* process_physics_data(json_path): the context text of a record, or a text
\* starting with the error marker when the record cannot be read or rebuilt
Context(f) ==
    IF f \in bad THEN <<ErrorMarker, ": ", "Invalid BandStructure Data">>
    ELSE <<"Computed Physical Properties">> \o f

\* a marker test that never fires
HasErrorMarker_Never(ctx) == FALSE

\* "Error" in llm_context
HasErrorMarker(ctx) == \E k \in DOMAIN ctx : ctx[k] = ErrorMarker

\* os.listdir(OUTPUT_DIR)
OutListing == {n \in MdNames : outdir[n] # "absent"}

\* a scan that looks for the wrong extension
ProcessedIds_Json(listing) ==
    {SplitFirst(n, ".") : n \in {m \in listing : EndsWith(m, <<".", "json">>)}}

\* processed_ids = {f.split('.')[0] for f in processed_files if f.endswith('.md')}
ProcessedIds(listing) ==
    {SplitFirst(n, ".") : n \in {m \in listing : EndsWith(m, <<".", "md">>)}}

\* the loop of main lines 291-296: pending_files keeps the listing order
Pending(files, done) == SelectSeq(files, LAMBDA f : MpIdOf(f) \notin done)

\* a batch that takes every pending record
Batch_All(p) == p

\* pending_files[:MAX_BATCH_SIZE] if MAX_BATCH_SIZE else pending_files
Batch(p) ==
    IF MAX_BATCH_SIZE # 0 /\ Len(p) > MAX_BATCH_SIZE THEN SubSeq(p, 1, MAX_BATCH_SIZE) ELSE p

\* md_path of the record being processed
MdPath == MdName(MpIdOf(cur))

UserMsg(c) == [role |-> "user", content |-> c]
\* a reply filed under the user's role
AssistantMsg_AsUser(c) == [role |-> "user", content |-> <<c>>]

AssistantMsg(c) == [role |-> "assistant", content |-> <<c>>]

\* main, lines 275-310: list both directories, build the pending list, return
\* if nothing is pending, else cut the batch and enter the loop.
GenScan ==
    /\ gpc = "start"
    /\ processed_ids' = ProcessedIds(OutListing)
    /\ pending_files' = Pending(all_jsons, processed_ids')
    /\ skipped_count_init' = Len(all_jsons) - Len(pending_files')
    /\ IF Len(pending_files') = 0
         THEN /\ gpc' = "done"
              /\ target_files' = <<>>
         ELSE /\ gpc' = "next"
              /\ target_files' = Batch(pending_files')
    /\ idx' = 1
    /\ count_success' = 0
    /\ count_failed' = 0
    /\ existedAtScan' = {MpIdOf(all_jsons[k]) : k \in
                           {j \in DOMAIN all_jsons : outdir[MdName(MpIdOf(all_jsons[j]))] # "absent"}}
    /\ UNCHANGED <<extVars, acqVars, genDisk, fileVars, outdirAtCall, callsThis, nCalls, called,
                   written, rets>>

\* a loop that counts only the successes
Finish_SuccessOnly(v) ==
    /\ rets' = Append(rets, v)
    /\ count_success' = IF v THEN count_success + 1 ELSE count_success
    /\ count_failed' = count_failed
    /\ idx' = idx + 1
    /\ gpc' = "next"

\* process_single_file returns v; main counts it, sleeps and goes on (lines 314-320)
Finish(v) ==
    /\ rets' = Append(rets, v)
    /\ count_success' = IF v THEN count_success + 1 ELSE count_success
    /\ count_failed' = IF v THEN count_failed ELSE count_failed + 1
    /\ idx' = idx + 1
    /\ gpc' = "next"

\* a process_single_file that goes on with the conversation of the record
\* before it
GenBegin_KeepHistory ==
    /\ gpc = "next"
    /\ idx <= Len(target_files)
    /\ cur' = target_files[idx]
    /\ outdirAtCall' = outdir
    /\ callsThis' = 0
    /\ resp_1' = Unset
    /\ resp_2' = Unset
    /\ IF HasErrorMarker(Context(cur'))
         THEN /\ Finish(FALSE)
              /\ history' = <<>>
         ELSE /\ history' = (IF history = <<>> THEN <<SystemMsg>> ELSE history)
                               \o <<UserMsg(<<PROMPT_1, "\n\n">> \o Context(cur'))>>
              /\ gpc' = "round1"
              /\ UNCHANGED <<rets, count_success, count_failed, idx>>
    /\ UNCHANGED <<extVars, acqVars, genDisk, processed_ids, pending_files, skipped_count_init,
                   target_files, existedAtScan, nCalls, called, written>>

\* the next loop iteration enters process_single_file (lines 226-246): the
\* context is computed; with the error marker in it the call returns False,
\* else the conversation is opened with the system message and prompt 1.
GenBegin ==
    /\ gpc = "next"
    /\ idx <= Len(target_files)
    /\ cur' = target_files[idx]
    /\ outdirAtCall' = outdir
    /\ callsThis' = 0
    /\ resp_1' = Unset
    /\ resp_2' = Unset
    /\ IF HasErrorMarker(Context(cur'))
         THEN /\ Finish(FALSE)
              /\ history' = <<>>
         ELSE /\ history' = <<SystemMsg, UserMsg(<<PROMPT_1, "\n\n">> \o Context(cur'))>>
              /\ gpc' = "round1"
              /\ UNCHANGED <<rets, count_success, count_failed, idx>>
    /\ UNCHANGED <<extVars, acqVars, genDisk, processed_ids, pending_files, skipped_count_init,
                   target_files, existedAtScan, nCalls, called, written>>

\* one call of call_qwen_api(history) for the current record
Call ==
    /\ nCalls' = nCalls + 1
    /\ callsThis' = callsThis + 1
    /\ called' = called \cup {MpIdOf(cur)}

\* resp_1 = call_qwen_api(history) and lines 249-257
GenRound1 ==
    /\ gpc = "round1"
    /\ Call
    /\ \E r \in Replies :
         /\ resp_1' = r
         /\ IF Falsy(r)
              THEN /\ Finish(FALSE)
                   /\ UNCHANGED history
              ELSE /\ history' = history \o <<AssistantMsg(r), UserMsg(<<PROMPT_2>>)>>
                   /\ gpc' = "round2"
                   /\ UNCHANGED <<rets, count_success, count_failed, idx>>
    /\ UNCHANGED <<extVars, acqVars, genDisk, processed_ids, pending_files, skipped_count_init,
                   target_files, cur, resp_2, existedAtScan, outdirAtCall, written>>

\* resp_2 = call_qwen_api(history) and lines 260-262
GenRound2 ==
    /\ gpc = "round2"
    /\ Call
    /\ \E r \in Replies :
         /\ resp_2' = r
         /\ IF Falsy(r)
              THEN Finish(FALSE)
              ELSE /\ gpc' = "save"
                   /\ UNCHANGED <<rets, count_success, count_failed, idx>>
    /\ UNCHANGED <<extVars, acqVars, genDisk, processed_ids, pending_files, skipped_count_init,
                   target_files, cur, history, resp_1, existedAtScan, outdirAtCall, written>>

\* open(md_path, 'w', encoding='utf-8'): creates or truncates the artifact; if
\* it raises, the except clause returns False.
GenOpen ==
    /\ gpc = "save"
    /\ \/ /\ outdir' = [outdir EXCEPT ![MdPath] = "partial"]
          /\ written' = written \cup {MdPath}
          /\ gpc' = "write"
          /\ UNCHANGED <<rets, count_success, count_failed, idx>>
       \/ /\ Finish(FALSE)
          /\ UNCHANGED <<outdir, written>>
    /\ UNCHANGED <<extVars, acqVars, all_jsons, bad, processed_ids, pending_files,
                   skipped_count_init, target_files, fileVars, existedAtScan,
                   outdirAtCall, callsThis, nCalls, called>>

\* a save that writes the round-1 reply
GenWrite_Round1 ==
    /\ gpc = "write"
    /\ \/ /\ outdir' = [outdir EXCEPT ![MdPath] = resp_1]
          /\ Finish(TRUE)
       \/ /\ Finish(FALSE)
          /\ UNCHANGED outdir
    /\ UNCHANGED <<extVars, acqVars, all_jsons, bad, processed_ids, pending_files,
                   skipped_count_init, target_files, fileVars, existedAtScan,
                   outdirAtCall, callsThis, nCalls, called, written>>

\* f.write(resp_2) and the close: the artifact holds resp_2 and True is
\* returned; or the write raises (the text cannot be encoded, the disk is
\* full), the file is closed as it is and the except clause returns False.
GenWrite ==
    /\ gpc = "write"
    /\ \/ /\ outdir' = [outdir EXCEPT ![MdPath] = resp_2]
          /\ Finish(TRUE)
       \/ /\ Finish(FALSE)
          /\ UNCHANGED outdir
    /\ UNCHANGED <<extVars, acqVars, all_jsons, bad, processed_ids, pending_files,
                   skipped_count_init, target_files, fileVars, existedAtScan,
                   outdirAtCall, callsThis, nCalls, called, written>>

\* the loop is over: the final report (lines 322-328)
GenReport ==
    /\ gpc = "next"
    /\ idx > Len(target_files)
    /\ gpc' = "reported"
    /\ UNCHANGED <<extVars, acqVars, genDisk, mainVars, fileVars, genHist>>

\* what an invocation starts from and what a killed one leaves: nothing but
\* the two directories
Forgotten ==
    /\ processed_ids' = {}
    /\ pending_files' = <<>>
    /\ skipped_count_init' = 0
    /\ target_files' = <<>>
    /\ idx' = 1
    /\ count_success' = 0
    /\ count_failed' = 0
    /\ cur' = <<>>
    /\ history' = <<>>
    /\ resp_1' = Unset
    /\ resp_2' = Unset
    /\ existedAtScan' = {}
    /\ outdirAtCall' = outdir
    /\ callsThis' = 0
    /\ nCalls' = 0
    /\ called' = {}
    /\ written' = {}
    /\ rets' = <<>>

\* the process is terminated from outside
GenKill ==
    /\ gpc \in {"start", "next", "round1", "round2", "save", "write"}
    /\ gpc' = "killed"
    /\ Forgotten
    /\ UNCHANGED <<extVars, acqVars, genDisk>>

\* the script is started again on the same directories
GenStart ==
    /\ gpc \in {"done", "reported", "killed"}
    /\ gpc' = "start"
    /\ Forgotten
    /\ UNCHANGED <<extVars, acqVars, genDisk>>

\* the acquisition stage is not running
AcqIdle ==
    /\ material_ids = [t \in Tasks |-> "mp-1"]
    /\ file = [i \in Ids |-> "absent"]
    /\ errlog = <<>>
    /\ write_lock = 0
    /\ batch = "off"
    /\ results = ZeroResults
    /\ collected = {}
    /\ filteredBefore = {}
    /\ fileAtStart = [i \in Ids |-> "absent"]
    /\ pc = Queued
    /\ status = NoStatus
    /\ err = NoErr
    /\ existedAtCall = AllFalse
    /\ sumAns = NoStatus
    /\ bsAns = NoStatus
    /\ nReq = AllZero
    /\ wrote = AllFalse
    /\ appended = AllZero

GenInit ==
    /\ AcqIdle
    /\ ExtIdle
    /\ all_jsons \in Listings
    /\ bad \in SUBSET {all_jsons[k] : k \in DOMAIN all_jsons}
    /\ outdir = [n \in MdNames |-> "absent"]
    /\ gpc = "start"
    /\ processed_ids = {}
    /\ pending_files = <<>>
    /\ skipped_count_init = 0
    /\ target_files = <<>>
    /\ idx = 1
    /\ count_success = 0
    /\ count_failed = 0
    /\ cur = <<>>
    /\ history = <<>>
    /\ resp_1 = Unset
    /\ resp_2 = Unset
    /\ existedAtScan = {}
    /\ outdirAtCall = outdir
    /\ callsThis = 0
    /\ nCalls = 0
    /\ called = {}
    /\ written = {}
    /\ rets = <<>>

GenNext ==
    \/ GenScan
    \/ GenBegin
    \/ GenRound1
    \/ GenRound2
    \/ GenOpen
    \/ GenWrite
    \/ GenReport
    \/ GenKill
    \/ GenStart

GenSpec == GenInit /\ [][GenNext]_vars

\* ---- generation run again and again over the same directories, with a
\* collaborator that always answers with text and saves that succeed
\* resp_1 = call_qwen_api(history) returns text
GenAnswered1 == GenRound1 /\ resp_1' \in Texts

\* resp_2 = call_qwen_api(history) returns text
GenAnswered2 == GenRound2 /\ resp_2' \in Texts

\* open(md_path, 'w') succeeds
GenOpened == GenOpen /\ gpc' = "write"

\* f.write(resp_2) succeeds and True is returned
GenSaved == GenWrite /\ count_success' = count_success + 1

GenRerunNext ==
    \/ GenScan
    \/ GenBegin
    \/ GenAnswered1
    \/ GenAnswered2
    \/ GenOpened
    \/ GenSaved
    \/ GenReport
    \/ GenStart

\* every step of main is taken once it can be, and a finished invocation is
\* followed by another
GenRerunSpec == GenInit /\ [][GenRerunNext]_vars /\ WF_vars(GenRerunNext)

\* ------------------------------------------------- extraction: operations
\* an exception raised in the body of process_physics_data at `step` is
\* caught by its outer handler: return f"Error: {e}"
Fail(step, msg) ==
    /\ xraised' = step
    /\ xret' = ErrorText(msg)
    /\ xpc' = "returned"

\* the values of the two metadata fields in the records of the model
RecId == Field(xrec, "material_id", "mp-1")
RecFormula == Field(xrec, "formula_pretty", "Si")

\* lines 131-136: open, json.load, data.get
XLoad ==
    /\ xpc = "load"
    /\ IF xrec.kind = "missing" THEN Fail("open", "No such file or directory")
       ELSE IF xrec.kind = "invalid" THEN Fail("json.load", "Expecting value")
       ELSE IF xrec.kind = "nondict"
              THEN Fail("data.get", "'list' object has no attribute 'get'")
       ELSE /\ xpc' = "rebuild"
            /\ UNCHANGED <<xret, xraised>>
    /\ UNCHANGED <<acqVars, genVars, xrec, xcalls, xmetal, xgap, xmass, xfit>>

\* lines 139-142: bs = BandStructureSymmLine.from_dict(data); a missing key
\* or malformed arrays raise, and the inner handler returns the rebuild error
XRebuild ==
    /\ xpc = "rebuild"
    /\ xcalls' = xcalls \cup {"from_dict"}
    /\ LET miss == FirstMissing(xrec.keys, FromDictKeys)
       IN  IF miss # ""
             THEN /\ xraised' = "from_dict"
                  /\ xret' = RebuildErrorText("'" \o miss \o "'")
                  /\ xpc' = "returned"
             ELSE \/ /\ xpc' = "metal"
                     /\ UNCHANGED <<xret, xraised>>
                  \/ /\ xraised' = "from_dict"
                     /\ xret' = RebuildErrorText("malformed arrays")
                     /\ xpc' = "returned"
    /\ UNCHANGED <<acqVars, genVars, xrec, xmetal, xgap, xmass, xfit>>

\* an extraction that computes the band gap before it looks at the metal flag
XIsMetal_GapFirst ==
    /\ xpc = "metal"
    /\ xcalls' = xcalls \cup {"is_metal", "get_band_gap"}
    /\ \E m \in BOOLEAN :
         /\ xmetal' = IF m THEN "yes" ELSE "no"
         /\ IF m THEN /\ xret' = MetalContext(RecId, RecFormula)
                      /\ xpc' = "returned"
                 ELSE /\ xpc' = "gap"
                      /\ UNCHANGED xret
    /\ UNCHANGED <<acqVars, genVars, xrec, xgap, xmass, xfit, xraised>>

\* lines 145-151: if bs.is_metal(): return the metal context
XIsMetal ==
    /\ xpc = "metal"
    /\ xcalls' = xcalls \cup {"is_metal"}
    /\ \E m \in BOOLEAN :
         /\ xmetal' = IF m THEN "yes" ELSE "no"
         /\ IF m THEN /\ xret' = MetalContext(RecId, RecFormula)
                      /\ xpc' = "returned"
                 ELSE /\ xpc' = "gap"
                      /\ UNCHANGED xret
    /\ UNCHANGED <<acqVars, genVars, xrec, xgap, xmass, xfit, xraised>>

\* lines 155-158: bg_data = bs.get_band_gap() and its three fields
XBandGap ==
    /\ xpc = "gap"
    /\ xcalls' = xcalls \cup {"get_band_gap"}
    /\ \/ /\ \E g \in GapAnswers : xgap' = g
          /\ xpc' = "vbm"
          /\ UNCHANGED <<xret, xraised>>
       \/ /\ Fail("get_band_gap", "band gap")
          /\ UNCHANGED xgap
    /\ UNCHANGED <<acqVars, genVars, xrec, xmetal, xmass, xfit>>

\* line 160: vbm_info = bs.get_vbm()
XGetVbm ==
    /\ xpc = "vbm"
    /\ xcalls' = xcalls \cup {"get_vbm"}
    /\ \/ /\ xpc' = "cbm"
          /\ UNCHANGED <<xret, xraised>>
       \/ Fail("get_vbm", "vbm")
    /\ UNCHANGED <<acqVars, genVars, xrec, xmetal, xgap, xmass, xfit>>

\* line 161: cbm_info = bs.get_cbm()
XGetCbm ==
    /\ xpc = "cbm"
    /\ xcalls' = xcalls \cup {"get_cbm"}
    /\ \/ /\ xpc' = "edge_vbm"
          /\ UNCHANGED <<xret, xraised>>
       \/ Fail("get_cbm", "cbm")
    /\ UNCHANGED <<acqVars, genVars, xrec, xmetal, xgap, xmass, xfit>>

\* analyze_band_edge has returned `mass` for the edge
EdgeDone(edge, mass) ==
    /\ xmass' = [xmass EXCEPT ![edge] = mass]
    /\ xpc' = IF edge = "vbm" THEN "edge_cbm" ELSE "format"
    /\ UNCHANGED <<xret, xraised>>

\* lines 164-181: analyze_band_edge(info) for one edge. spins: the keys of
\* info['band_index']; the first band index of the chosen spin; the search of
\* the edge's k-point among bs.kpoints; calc_effective_mass if it is found.
XAnalyze(edge) ==
    /\ xpc = "edge_" \o edge
    /\ \/ \* neither spin is in info['band_index']
          /\ EdgeDone(edge, "Unknown")
          /\ UNCHANGED xcalls
          /\ xfit' = NoFit
       \/ \* info['band_index'][spin] is empty, or info['kpoint'] is None
          /\ Fail("analyze_band_edge", "list index out of range")
          /\ UNCHANGED <<xcalls, xmass>>
          /\ xfit' = NoFit
       \/ \* no k-point of bs.kpoints matches: k_idx = -1
          /\ EdgeDone(edge, "N/A")
          /\ UNCHANGED xcalls
          /\ xfit' = NoFit
       \/ \* found at k_idx: mass = calc_effective_mass(bs, band_idx, k_idx, spin)
          /\ xcalls' = xcalls \cup {"calc_effective_mass"}
          /\ \E num_k \in 0..MaxK, bandOk \in BOOLEAN,
                fitOk \in BOOLEAN, a \in AVals :
               \E nk \in {num_k, num_k + 1} \cap 1..MaxK, k_idx \in 0..MaxK :
                 /\ k_idx < nk
                 /\ Canonical(bandOk, num_k, nk, k_idx, fitOk, a)
                 /\ LET mass == CalcEffectiveMass(bandOk, num_k, nk, k_idx, fitOk, a)
                        w == WindowOf(num_k, k_idx)
                    IN  /\ xfit' = [edge |-> edge, band |-> bandOk,
                                     num_k |-> num_k, nd |-> nk, k_idx |-> k_idx,
                                     start |-> w[1], end |-> w[2],
                                     fit |-> fitOk, a |-> a,
                                     fault |-> CalcBody(bandOk, num_k, nk, k_idx, fitOk, a)
                                                 = Raised]
                        /\ IF mass = Raised
                             THEN /\ Fail("calc_effective_mass", "fit")
                                  /\ UNCHANGED xmass
                             ELSE EdgeDone(edge, mass)
    /\ UNCHANGED <<acqVars, genVars, xrec, xmetal, xgap>>

\* lines 183-200: the [CALC] line is printed and the context returned
XFormat ==
    /\ xpc = "format"
    /\ xret' = SemiContext(RecId, RecFormula, xgap, xmass["vbm"], xmass["cbm"])
    /\ xpc' = "returned"
    /\ UNCHANGED <<acqVars, genVars, xrec, xcalls, xmetal, xgap, xmass, xfit, xraised>>

\* an extraction whose working values outlive the call
XNext_NoReset ==
    /\ xpc = "returned"
    /\ xrec' \in Records
    /\ xpc' = "load"
    /\ xret' = NoText
    /\ xraised' = "none"
    /\ UNCHANGED <<acqVars, genVars, xcalls, xmetal, xgap, xmass, xfit>>

\* the caller goes on to another record file
XNext ==
    /\ xpc = "returned"
    /\ xrec' \in Records
    /\ xpc' = "load"
    /\ xret' = NoText
    /\ xcalls' = {}
    /\ xmetal' = "unknown"
    /\ xgap' = NoGap
    /\ xmass' = NoMass
    /\ xfit' = NoFit
    /\ xraised' = "none"
    /\ UNCHANGED <<acqVars, genVars>>

ExtInit ==
    /\ AcqIdle
    /\ GenIdle
    /\ xrec \in Records
    /\ xpc = "load"
    /\ xret = NoText
    /\ xcalls = {}
    /\ xmetal = "unknown"
    /\ xgap = NoGap
    /\ xmass = NoMass
    /\ xfit = NoFit
    /\ xraised = "none"

ExtNext ==
    \/ XLoad
    \/ XRebuild
    \/ XIsMetal
    \/ XBandGap
    \/ XGetVbm
    \/ XGetCbm
    \/ \E e \in Edges : XAnalyze(e)
    \/ XFormat
    \/ XNext

ExtSpec == ExtInit /\ [][ExtNext]_vars

\* ------------------------------------------------ claims on acquisition
\* the calls inside `with write_lock:` (record write or log append)
InWrite(t) == pc[t] \in {"open", "dump", "append"}
Terminated(t) == pc[t] \in {"done", "raised"}

\* C1: a call entered while its record file exists returns 'skipped' and has
\* issued no database request, opened no record file and appended nothing to
\* the error log; so a run over a list whose record files all exist issues no
\* request at all.
C1_SkipBeforeAccess ==
    \A t \in Tasks :
        existedAtCall[t] =>
            /\ pc[t] \in {"check", "done"}
            /\ pc[t] = "done" => status[t] = "skipped"
            /\ nReq[t] = 0 /\ sumAns[t] = "none" /\ bsAns[t] = "none"
            /\ ~wrote[t]
            /\ appended[t] = 0

\* C1 witness: a later run over two different identifiers whose record files
\* both exist has answered every call with 'skipped'.
C1_Witness ==
    /\ material_ids[1] # material_ids[2]
    /\ \A t \in Tasks : existedAtCall[t] /\ pc[t] = "done" /\ status[t] = "skipped"

\* C4 as claimed: a record file nobody is writing at the moment is absent or
\* complete; a call answered 'skipped' found a complete record; an identifier
\* whose only call ended in 'error' has no file.
C4_Claim ==
    /\ \A i \in Ids :
         (\A t \in Tasks : material_ids[t] = i => pc[t] # "dump")
            => file[i] \in {"absent", "complete"}
    /\ \A t \in Tasks : status[t] = "skipped" => file[material_ids[t]] = "complete"
    /\ \A t \in Tasks :
         (status[t] = "error" /\ \A u \in Tasks : material_ids[u] = material_ids[t] => u = t)
            => file[material_ids[t]] = "absent"

\* C6: no two calls are inside a record write or a log append at the same
\* time, and a call inside one holds write_lock.
C6_MutualExclusion ==
    /\ \A t, u \in Tasks : t # u => ~(InWrite(t) /\ InWrite(u))
    /\ \A t \in Tasks : InWrite(t) => write_lock = t

\* C6 witness: one call writes a record while another waits for the lock.
C6_Witness ==
    \E t, u \in Tasks : pc[t] = "dump" /\ pc[u] \in {"lockw", "lockl"}

\* C7: an empty summary answer ends the call with 'failed': no band-structure
\* request, no record file opened, no log line; the step changes no file, not
\* the log, and no counter other than 'failed', which the loop raises by one.
C7_NotFoundIsFailed ==
    /\ [](\A t \in Tasks :
            sumAns[t] = "empty" =>
                /\ pc[t] = "done" /\ status[t] = "failed"
                /\ bsAns[t] = "none" /\ nReq[t] = 1
                /\ ~wrote[t] /\ appended[t] = 0 /\ err[t] = NoMsg)
    /\ [][\A t \in Tasks :
            (sumAns[t] # "empty" /\ sumAns'[t] = "empty") =>
                /\ file' = file /\ errlog' = errlog
                /\ batch = "running" => results'["failed"] = results["failed"] + 1
                /\ results'["failed"] \in {results["failed"], results["failed"] + 1}
                /\ \A s \in Statuses \ {"failed"} : results'[s] = results[s]]_vars

\* C7 witness: a call has got the empty summary answer and returned.
C7_Witness ==
    \E t \in Tasks : sumAns[t] = "empty" /\ status[t] = "failed" /\ results["failed"] >= 1

\* C8: summary found, band structure null: the call ends with 'filtered',
\* no record file opened, no log line; the step changes no file and not the log.
C8_NullIsFiltered ==
    /\ [](\A t \in Tasks :
            bsAns[t] = "null" =>
                /\ sumAns[t] = "docs"
                /\ pc[t] = "done" /\ status[t] = "filtered"
                /\ ~wrote[t] /\ appended[t] = 0 /\ err[t] = NoMsg)
    /\ [][\A t \in Tasks :
            (bsAns[t] # "null" /\ bsAns'[t] = "null") =>
                file' = file /\ errlog' = errlog]_vars

\* C8 witness: a call has got the null band structure and returned.
C8_Witness ==
    \E t \in Tasks : sumAns[t] = "docs" /\ bsAns[t] = "null" /\ status[t] = "filtered"

\* C9 as claimed: an identifier classified 'filtered' in an earlier run causes
\* no database request in a later run.
C9_Claim ==
    \A t \in Tasks : material_ids[t] \in filteredBefore => nReq[t] = 0

\* C9 amended: 'filtered' leaves nothing on disk (the call opened no record
\* file), so it is not remembered: a later call for an identifier classified
\* 'filtered' earlier is answered 'skipped' only if a record file exists, and
\* otherwise has queried the database again.
C9_FilteredIsRetried ==
    /\ \A t \in Tasks : status[t] = "filtered" => ~wrote[t]
    /\ \A t \in Tasks :
         (material_ids[t] \in filteredBefore /\ Terminated(t)) =>
             IF status[t] = "skipped"
               THEN Exists(file[material_ids[t]])
               ELSE nReq[t] >= 1

\* C9 witness: a later run has queried the database again for an identifier
\* an earlier run classified 'filtered', and classified it 'filtered' again.
C9_Witness ==
    \E t \in Tasks :
        /\ material_ids[t] \in filteredBefore
        /\ status[t] = "filtered" /\ nReq[t] = 2
        /\ file[material_ids[t]] = "absent"

\* C10 as claimed: a call in which a fault was raised ends with 'filtered' and
\* no log line if the message holds the marker, and else with 'error' and
\* exactly one log line; a call with any other outcome appended nothing.
C10_Claim ==
    /\ \A t \in Tasks :
         (err[t] # NoMsg /\ Terminated(t)) =>
             IF ContainsMarker(err[t])
               THEN status[t] = "filtered" /\ appended[t] = 0
               ELSE status[t] = "error" /\ appended[t] = 1
    /\ \A t \in Tasks : status[t] # "error" => appended[t] = 0

\* the sum of the five counters
Total == results["success"] + results["skipped"] + results["filtered"]
           + results["failed"] + results["error"]

\* C11: while the loop runs the counters sum to the number of futures consumed,
\* each consumed call having raised the counter of its own status by one; when
\* the batch has reached its final report every call has been consumed, so the
\* counters sum to len(material_ids) (duplicates in the list count each time).
C11_CountersSumToLen ==
    batch \in {"running", "reported"} =>
        /\ Total = Cardinality(collected)
        /\ \A s \in Statuses :
              results[s] = Cardinality({t \in collected : status[t] = s})
        /\ batch = "reported" => (collected = Tasks /\ Total = Len(material_ids))

\* C11 witness: a batch over a list naming one identifier twice has reported,
\* with one 'success' and one 'skipped'.
C11_Witness ==
    /\ batch = "reported"
    /\ material_ids[1] = material_ids[2]
    /\ results["success"] = 1 /\ results["skipped"] = 1

\* C18 as claimed: no call of download_single_material_data ends by raising:
\* every call that is over has returned one of the five statuses, and
\* future.result() never raises in the loop of batch_download_bandstructures.
C18_Claim ==
    /\ \A t \in Tasks : pc[t] # "raised"
    /\ \A t \in Tasks : pc[t] = "done" => status[t] \in Statuses
    /\ batch \notin {"raising", "raised"}

\* -------------------------------------------------- claims on generation
\* the collaborator returned no content
NoContent(r) == r \in {NoneReply, EmptyReply}
\* main is between two records or has left the loop, after at least one record
AfterRecord == gpc \in {"next", "reported"} /\ rets # <<>>
LastRet == rets[Len(rets)]

\* C2: when round 1 or round 2 returned no content, process_single_file has
\* returned False with OUTPUT_DIR as it found it (a material without artifact
\* still has none); after a failed round 1 no round 2 was requested.
C2_NoContentNoWrite ==
    (AfterRecord /\ (NoContent(resp_1) \/ NoContent(resp_2))) =>
        /\ LastRet = FALSE
        /\ outdir = outdirAtCall
        /\ outdirAtCall[MdPath] = "absent" => outdir[MdPath] = "absent"
        /\ NoContent(resp_1) => (resp_2 = Unset /\ callsThis = 1)
        /\ NoContent(resp_2) => callsThis = 2

\* C2 witness: round 1 answered, round 2 returned the empty string, and the
\* call is over.
C2_Witness ==
    /\ AfterRecord
    /\ resp_1 \in Texts
    /\ resp_2 = EmptyReply
    /\ outdir[MdPath] = "absent"

\* C3 as claimed: an artifact that is not being written at the moment is
\* absent or holds a complete round-2 text; every identifier the scan took as
\* done has a complete artifact; a material whose processing returned False
\* has no artifact (if it had none before).
C3_Claim ==
    /\ \A n \in MdNames : ~(gpc = "write" /\ MdPath = n) => outdir[n] # "partial"
    /\ \A i \in processed_ids : outdir[MdName(i)] \in Texts
    /\ (AfterRecord /\ LastRet = FALSE /\ outdirAtCall[MdPath] = "absent")
          => outdir[MdPath] = "absent"

\* C5: after the scan, the identifiers taken as done are exactly those whose
\* artifact existed at the scan; none of them is in the pending list or the
\* batch, none gets a collaborator call or a write; every other record is
\* pending; and when every record's artifact existed, the invocation ends at
\* once with no call and no write.
C5_SkipPolicy ==
    gpc \in {"next", "round1", "round2", "save", "write", "done", "reported"} =>
        /\ processed_ids = existedAtScan
        /\ pending_files = SelectSeq(all_jsons, LAMBDA f : MpIdOf(f) \notin existedAtScan)
        /\ \A k \in DOMAIN target_files : MpIdOf(target_files[k]) \notin existedAtScan
        /\ called \cap existedAtScan = {}
        /\ \A i \in existedAtScan : MdName(i) \notin written
        /\ (\A k \in DOMAIN all_jsons : MpIdOf(all_jsons[k]) \in existedAtScan)
              => (gpc = "done" /\ nCalls = 0 /\ written = {})

\* C5 witness: an invocation that found a complete artifact for every record
\* has ended without a call.
C5_Witness ==
    /\ gpc = "done"
    /\ \A k \in DOMAIN all_jsons : MpIdOf(all_jsons[k]) \in existedAtScan
    /\ \A n \in MdNames : outdir[n] \in Texts
    /\ nCalls = 0

\* the records of the batch whose processing returned v
Returned(v) == {k \in DOMAIN rets : rets[k] = v}

\* C12 as claimed: at the final report the three counts sum to the number of
\* record files the invocation scanned.
C12_Claim ==
    gpc = "reported" =>
        count_success + count_failed + skipped_count_init = Len(all_jsons)

\* C12 amended: in the loop every processed record has raised exactly one of
\* count_success and count_failed; at the final report the two sum to the
\* size of the batch, min(pending, MAX_BATCH_SIZE), and with
\* skipped_count_init to the number of scanned record files less the pending
\* records left beyond the batch, which is the number scanned exactly when no
\* more than MAX_BATCH_SIZE records were pending.
C12_ReportedCounts ==
    gpc \in {"next", "round1", "round2", "save", "write", "reported"} =>
        /\ count_success = Cardinality(Returned(TRUE))
        /\ count_failed = Cardinality(Returned(FALSE))
        /\ count_success + count_failed = Len(rets)
        /\ skipped_count_init + Len(pending_files) = Len(all_jsons)
        /\ Len(target_files) = Min(Len(pending_files), MAX_BATCH_SIZE)
        /\ gpc = "reported" =>
              /\ count_success + count_failed = Len(target_files)
              /\ count_success + count_failed + skipped_count_init
                   = Len(all_jsons) - (Len(pending_files) - Len(target_files))
              /\ (count_success + count_failed + skipped_count_init = Len(all_jsons))
                   <=> Len(pending_files) <= MAX_BATCH_SIZE

\* C12 witness: an invocation with one artifact present and more records
\* pending than the batch takes has reported a success and a failure.
C12_Witness ==
    /\ gpc = "reported"
    /\ skipped_count_init >= 1
    /\ Len(pending_files) > MAX_BATCH_SIZE
    /\ count_success >= 1 /\ count_failed >= 1

\* main is past the scan with a batch cut
InBatch == gpc \in {"next", "round1", "round2", "save", "write", "reported"}
\* process_single_file is running
InFile == gpc \in {"round1", "round2", "save", "write"}
\* the number of process_single_file calls entered so far
Entered == Len(rets) + (IF InFile THEN 1 ELSE 0)
\* the identifiers of the batch
TargetIds == {MpIdOf(target_files[k]) : k \in DOMAIN target_files}

\* C13: the batch is the first MAX_BATCH_SIZE records of the pending list (all
\* of it if shorter); process_single_file is entered at most MAX_BATCH_SIZE
\* times and at most 2 * MAX_BATCH_SIZE collaborator calls are made, two per
\* record at most; a pending material outside the batch gets no collaborator
\* call and no artifact.
C13_BatchBound ==
    InBatch =>
        /\ Len(target_files) <= MAX_BATCH_SIZE
        /\ target_files = SubSeq(pending_files, 1, Len(target_files))
        /\ Entered <= Len(target_files)
        /\ callsThis <= 2
        /\ nCalls <= 2 * Entered
        /\ nCalls <= 2 * MAX_BATCH_SIZE
        /\ called \subseteq TargetIds
        /\ \A k \in DOMAIN pending_files :
              MpIdOf(pending_files[k]) \notin TargetIds =>
                  /\ MpIdOf(pending_files[k]) \notin called
                  /\ MdName(MpIdOf(pending_files[k])) \notin written
                  /\ outdir[MdName(MpIdOf(pending_files[k]))] = "absent"

\* C13 witness: with more materials pending than the batch takes, an
\* invocation has made all 2 * MAX_BATCH_SIZE calls and reported, and a
\* pending material is left without artifact.
C13_Witness ==
    /\ gpc = "reported"
    /\ Len(pending_files) > MAX_BATCH_SIZE
    /\ nCalls = 2 * MAX_BATCH_SIZE
    /\ \E k \in DOMAIN pending_files :
          /\ MpIdOf(pending_files[k]) \notin TargetIds
          /\ outdir[MdName(MpIdOf(pending_files[k]))] = "absent"

\* the conversation process_single_file sends in round 1 and in round 2
Round1History ==
    << [role |-> "system", content |-> <<"system instruction">>],
       [role |-> "user", content |-> <<PROMPT_1, "\n\n">> \o Context(cur)] >>
Round2History ==
    Round1History \o << [role |-> "assistant", content |-> <<resp_1>>],
                        [role |-> "user", content |-> <<PROMPT_2>>] >>

\* C14: every collaborator call of a process_single_file is its first or its
\* second; the first is made for a context without the error marker and
\* sends [system, user(PROMPT_1 + context)], the second is made after a
\* round-1 text and sends [system, user(PROMPT_1 + context),
\* assistant(round-1 reply), user(PROMPT_2)]; OUTPUT_DIR changes only after
\* both calls were answered with text, and a call that returned True made
\* exactly these two calls.
C14_TwoRoundsInOrder ==
    /\ [](/\ callsThis <= 2
          /\ gpc \in {"save", "write"} =>
                (callsThis = 2 /\ resp_1 \in Texts /\ resp_2 \in Texts)
          /\ (AfterRecord /\ LastRet = TRUE) =>
                (callsThis = 2 /\ resp_1 \in Texts /\ resp_2 \in Texts
                   /\ history = Round2History))
    /\ [][/\ callsThis' = callsThis + 1 =>
                /\ callsThis \in {0, 1}
                /\ ~HasErrorMarker(Context(cur))
                /\ callsThis = 0 => (gpc = "round1" /\ history = Round1History)
                /\ callsThis = 1 => (gpc = "round2" /\ resp_1 \in Texts
                                       /\ history = Round2History)
          /\ outdir' # outdir =>
                (gpc \in {"save", "write"} /\ callsThis = 2
                   /\ resp_1 \in Texts /\ resp_2 \in Texts)]_vars

\* C14 witness: a process_single_file has returned True after two calls, with
\* the round-2 conversation of four messages and its artifact written.
C14_Witness ==
    /\ AfterRecord /\ LastRet = TRUE
    /\ callsThis = 2
    /\ Len(history) = 4
    /\ outdir[MdPath] = resp_2

\* C15: when process_single_file has returned True, the artifact of its
\* material holds exactly the round-2 reply; and every change of OUTPUT_DIR
\* is made to that one artifact, which is opened empty or set to the round-2
\* reply: the round-1 reply is written nowhere.
C15_ArtifactIsRound2 ==
    /\ []((AfterRecord /\ LastRet = TRUE) =>
            (resp_2 \in Texts /\ outdir[MdPath] = resp_2))
    /\ [][outdir' # outdir =>
            /\ \A n \in MdNames : n # MdPath => outdir'[n] = outdir[n]
            /\ outdir'[MdPath] \in {"partial", resp_2}]_vars

\* C15 witness: a call whose two replies differ has returned True and its
\* artifact holds the second.
C15_Witness ==
    /\ AfterRecord /\ LastRet = TRUE
    /\ resp_1 \in Texts /\ resp_2 \in Texts /\ resp_1 # resp_2
    /\ outdir[MdPath] = resp_2

\* C16: a record whose context holds the error marker ends its
\* process_single_file at once: no conversation is opened, no collaborator
\* call is made, OUTPUT_DIR is left as it was and False is returned and
\* counted; main stays in its loop, at the next record of the batch.
C16_ErrorMarkerStops ==
    /\ [](InFile => cur \notin bad)
    /\ []((AfterRecord /\ cur \in bad) =>
            /\ LastRet = FALSE
            /\ callsThis = 0 /\ history = <<>>
            /\ resp_1 = Unset /\ resp_2 = Unset
            /\ outdir = outdirAtCall)
    /\ [][(/\ gpc = "next" /\ gpc' # "killed"
           /\ idx <= Len(target_files)
           /\ target_files[idx] \in bad) =>
              /\ cur' = target_files[idx]
              /\ nCalls' = nCalls /\ called' = called
              /\ outdir' = outdir /\ written' = written
              /\ rets' = Append(rets, FALSE)
              /\ count_failed' = count_failed + 1
              /\ count_success' = count_success
              /\ gpc' = "next" /\ idx' = idx + 1
              /\ target_files' = target_files]_vars

\* C16 witness: the first record of a batch had the error marker and
\* returned False without a call; the second was then processed and saved.
C16_Witness ==
    /\ AfterRecord /\ Len(rets) = 2
    /\ target_files[1] \in bad /\ rets[1] = FALSE
    /\ target_files[2] \notin bad /\ rets[2] = TRUE
    /\ nCalls = 2

\* --------------------------------------------------- claims on extraction
\* the record is a document as acquisition writes it
Acquired(rec) == rec.kind = "dict" /\ \E p \in BOOLEAN : rec.keys = BsDumpKeys(p)
\* the text holds the error marker
IsErrorText(txt) == \E k \in DOMAIN txt : txt[k] = "Error"

\* C17 as claimed: process_physics_data applied to a record as acquisition
\* writes it does not return the error text of a failed reconstruction for a
\* key the record lacks.
C17_Claim ==
    (Acquired(xrec) /\ xpc = "returned") =>
        ~(/\ xraised = "from_dict"
          /\ IsErrorText(xret)
          /\ \E k \in DOMAIN FromDictKeys :
                xret = RebuildErrorText("'" \o FromDictKeys[k] \o "'"))

\* C19: process_physics_data ends by returning a text whatever was raised on
\* the way: an exception raised at any step has become a returned error
\* text; calc_effective_mass returns a text, and a fault inside it has become
\* 'CalcErr' in the field of its edge, with the record's extraction going on
\* to a context without the error marker.
C19_NoExceptionPropagates ==
    /\ xpc = "returned" => xret # NoText
    /\ xraised # "none" => (xpc = "returned" /\ IsErrorText(xret))
    /\ \A e \in Edges : xmass[e] # Raised
    /\ xfit.fault =>
          /\ xmass[xfit.edge] = "CalcErr"
          /\ xraised = "none"
          /\ xpc \in {"edge_cbm", "format", "returned"}
          /\ xpc = "returned" => ~IsErrorText(xret)

\* C19 witness: the fit of the electron mass failed after the hole mass was
\* computed, and the context was returned with 'CalcErr' in that one field.
C19_Witness ==
    /\ xpc = "returned"
    /\ xfit.fault /\ xfit.edge = "cbm"
    /\ xmass["vbm"] = "10.000 m_e"
    /\ xmass["cbm"] = "CalcErr"
    /\ xret # NoText /\ xret[1] = "Computed Physical Properties"

\* the helpers a metal must not reach
SemiHelpers == {"calc_effective_mass", "get_band_gap", "get_vbm", "get_cbm"}

\* C20: once bs.is_metal() has answered yes, process_physics_data has
\* returned the metal context (type Metal, band gap '0.0000 eV') and none of
\* calc_effective_mass, get_band_gap, get_vbm, get_cbm was called.
C20_MetalShortCircuit ==
    xmetal = "yes" =>
        /\ xpc = "returned"
        /\ xret = <<"1. Material: ", RecId, RecFormula, "2. Electronic Type: ", "Metal",
                    "3. Band Gap: ", "0.0000 eV", "4. Dynamics: ", "N/A (Metallic)">>
        /\ xcalls \cap SemiHelpers = {}
        /\ xgap = NoGap /\ xmass = NoMass /\ xfit = NoFit

\* C20 witness: a record in the library's format was rebuilt, found
\* metallic, and the metal context returned.
C20_Witness ==
    /\ xmetal = "yes"
    /\ xpc = "returned"
    /\ xcalls = {"from_dict", "is_metal"}
    /\ xret[5] = "Metal" /\ xret[7] = "0.0000 eV"

\* ------------------------------------- claims on acquisition, continued
\* call t is past its existence check and has not returned
InFlight(t) == pc[t] \in {"summary", "bs", "lockw", "open", "dump", "lockl", "append"}

\* C21 as claimed: a record file that was written successfully is never
\* changed again: it stays complete in every later step, and the file of a
\* call that returned 'success' is complete.
C21_Claim ==
    \A t \in Tasks : status[t] = "success" => file[material_ids[t]] = "complete"

\* C22 as claimed: no two calls for the same identifier are past their
\* existence check and not yet returned at the same time.
C22_Claim ==
    \A t, u \in Tasks :
        (t # u /\ material_ids[t] = material_ids[u]) => ~(InFlight(t) /\ InFlight(u))

\* the list names no identifier twice
Distinct == \A t, u \in Tasks : t # u => material_ids[t] # material_ids[u]

\* What call t ends with, as a function of what the run was given for its
\* identifier alone: the record file the run found, the database's answers,
\* and the fault raised in the call, if any.
ExpectedStatus(t) ==
    IF fileAtStart[material_ids[t]] # "absent" THEN "skipped"
    ELSE IF sumAns[t] = "empty" THEN "failed"
    ELSE IF bsAns[t] = "null" THEN "filtered"
    ELSE IF err[t] # NoMsg
           THEN (IF \E k \in DOMAIN err[t] : err[t][k] = "No setyawan_curtarolo"
                   THEN "filtered" ELSE "error")
    ELSE "success"
ExpectedFile(t) ==
    IF fileAtStart[material_ids[t]] # "absent" THEN fileAtStart[material_ids[t]]
    ELSE IF ~wrote[t] THEN "absent"
    ELSE IF err[t] = NoMsg THEN "complete"
    ELSE "partial"

\* C23: for a list of distinct identifiers, the status a call returns and the
\* record file it leaves are determined by what the run was given for that
\* identifier (the file found at the start, the answers, the fault), whatever
\* the other calls do and in whatever order the calls run and complete; a
\* record file is changed by the call for its identifier only; so the files
\* and, at the report, the five counters are the same for every interleaving
\* and every pool size up to MaxWorkers.
C23_OrderIrrelevant ==
    Distinct =>
        /\ \A t \in Tasks :
             /\ pc[t] \in {"queued", "check", "summary", "bs", "lockw"} =>
                   file[material_ids[t]] = fileAtStart[material_ids[t]]
             /\ pc[t] = "done" =>
                   /\ status[t] = ExpectedStatus(t)
                   /\ file[material_ids[t]] = ExpectedFile(t)
        /\ \A i \in Ids :
             (\A t \in Tasks : material_ids[t] # i) => file[i] = fileAtStart[i]
        /\ batch = "reported" =>
             \A s \in Statuses :
                 results[s] = Cardinality({t \in Tasks : ExpectedStatus(t) = s})

\* C23 witness: a run over two distinct identifiers has reported, the first
\* call having written its record and the second having been filtered.
C23_Witness ==
    /\ Distinct
    /\ batch = "reported"
    /\ status[1] = "success" /\ file[material_ids[1]] = "complete"
    /\ status[2] = "filtered" /\ file[material_ids[2]] = "absent"

\* ------------------------------------- claims on extraction, continued
\* the message of the exception each step of process_physics_data raises in
\* the model
StepMsg(step) ==
    CASE step = "open" -> "No such file or directory"
      [] step = "json.load" -> "Expecting value"
      [] step = "data.get" -> "'list' object has no attribute 'get'"
      [] step = "get_band_gap" -> "band gap"
      [] step = "get_vbm" -> "vbm"
      [] step = "get_cbm" -> "cbm"
      [] step = "analyze_band_edge" -> "list index out of range"
      [] OTHER -> "fit"

\* the value of a metadata field of the record at hand
FieldOf(key, value) == IF key \in xrec.keys THEN value ELSE "Unknown"

\* The text a run returns, written as a function of the record and of what
\* the band-structure library answered for it in this run.
ExpectedText ==
    IF xraised = "from_dict"
      THEN LET missing == {k \in DOMAIN FromDictKeys : FromDictKeys[k] \notin xrec.keys}
           IN  IF missing = {}
                 THEN <<"Error", ": ", "Invalid BandStructure Data (", "malformed arrays", ")">>
                 ELSE <<"Error", ": ", "Invalid BandStructure Data (",
                        "'" \o FromDictKeys[CHOOSE k \in missing : \A j \in missing : k <= j]
                            \o "'", ")">>
    ELSE IF xraised # "none" THEN <<"Error", ": ", StepMsg(xraised)>>
    ELSE IF xmetal = "yes"
      THEN <<"1. Material: ", FieldOf("material_id", "mp-1"),
             FieldOf("formula_pretty", "Si"), "2. Electronic Type: ", "Metal",
             "3. Band Gap: ", "0.0000 eV", "4. Dynamics: ", "N/A (Metallic)">>
    ELSE <<"Computed Physical Properties", "ID: ", FieldOf("material_id", "mp-1"),
           "Formula: ", FieldOf("formula_pretty", "Si"),
           "Type: ", "Semiconductor/Insulator",
           "Gap: ", xgap.energy, " eV",
           "Type: ", IF xgap.direct THEN "Direct" ELSE "Indirect",
           "Path: ", IF xgap.transition = "" THEN "Unknown" ELSE xgap.transition,
           "Holes (VBM): ", xmass["vbm"], "Electrons (CBM): ", xmass["cbm"]>>

FitMade == xfit.edge # ""

\* C25: in every calc_effective_mass call whose band lookup succeeded, with
\* num_k = len(energies): if num_k >= 3 and 0 <= k_idx < num_k, the window
\* satisfies 0 <= start < end <= num_k, contains k_idx and has min(5, num_k)
\* points, at least 3; if num_k < 3 nothing is raised and the result is the
\* insufficient-points sentinel.
C25_Window ==
    (FitMade /\ xfit.band) =>
        /\ (xfit.num_k >= 3 /\ 0 <= xfit.k_idx /\ xfit.k_idx < xfit.num_k) =>
              /\ 0 <= xfit.start /\ xfit.start < xfit.end /\ xfit.end <= xfit.num_k
              /\ xfit.start <= xfit.k_idx /\ xfit.k_idx < xfit.end
              /\ xfit.end - xfit.start = (IF xfit.num_k < 5 THEN xfit.num_k ELSE 5)
              /\ xfit.end - xfit.start >= 3
        /\ xfit.num_k < 3 =>
              /\ ~xfit.fault
              /\ xraised = "none"
              /\ xmass[xfit.edge] = "N/A (Points<3)"

\* C25 witness: a band of 7 points with its edge at the last point was given
\* the window [2, 7).
C25_Witness ==
    /\ FitMade /\ xfit.band
    /\ xfit.num_k = 7 /\ xfit.k_idx = 6
    /\ xfit.start = 2 /\ xfit.end = 7

\* np.polyfit has returned coefficients in the last calc_effective_mass call:
\* the band lookup succeeded, both slices hold the same number of points, at
\* least 3, and the fit did not raise
Fitted ==
    /\ FitMade /\ xfit.band /\ xfit.fit
    /\ SliceLen(xfit.nd, xfit.start, xfit.end) >= 3
    /\ SliceLen(xfit.num_k, xfit.start, xfit.end) = SliceLen(xfit.nd, xfit.start, xfit.end)

\* C26: whenever the fitted coefficient a is below the threshold in magnitude
\* (|a| < 1e-4, a = 0 included), calc_effective_mass returns 'Heavy (>10 m_e)'
\* with nothing raised: the division is not reached; and a mass is a number
\* only for |a| at or above the threshold.
C26_DegeneracyGuard ==
    Fitted =>
        /\ (0 - 10 < xfit.a /\ xfit.a < 10) =>
              /\ xmass[xfit.edge] = "Heavy (>10 m_e)"
              /\ ~xfit.fault
              /\ xraised = "none"
        /\ ~(0 - 10 < xfit.a /\ xfit.a < 10) =>
              /\ xmass[xfit.edge] \notin {"Heavy (>10 m_e)", "CalcErr", "N/A (Points<3)"}
              /\ ~xfit.fault

\* C26 witness: the fit returned a = 0 and the result is the heavy sentinel.
C26_Witness ==
    /\ Fitted
    /\ xfit.a = 0
    /\ xmass[xfit.edge] = "Heavy (>10 m_e)"

\* ---- the effective-mass fields of a semiconductor context
\* the context returned for a record that is not a metal
NonMetalContext ==
    /\ xpc = "returned"
    /\ Len(xret) = 18
    /\ xret[7] = "Semiconductor/Insulator"
HoleField == xret[16]
ElectronField == xret[18]
\* f"{abs(m_eff):.3f} m_e" over the coefficients of the model
NumericMasses == {MassText(a) : a \in AVals \ {0}}
SpecSentinels == {"N/A", "CalcErr", "Heavy (>10 m_e)"}
CodeSentinels == SpecSentinels \cup {"N/A (Points<3)", "Unknown"}

\* C27 (as stated): in every non-metal context the hole and the electron
\* effective-mass field is each a number with the suffix ' m_e' or one of
\* 'N/A', 'CalcErr', 'Heavy (>10 m_e)'; no other string appears.
C27_Claim ==
    NonMetalContext =>
        /\ HoleField \in NumericMasses \cup SpecSentinels
        /\ ElectronField \in NumericMasses \cup SpecSentinels

\* C27 (amended): in every non-metal context each of the two fields is a
\* number with the suffix ' m_e' or one of 'N/A', 'CalcErr',
\* 'Heavy (>10 m_e)', 'N/A (Points<3)', 'Unknown'; the fields are the values
\* analyze_band_edge returned; and calc_effective_mass returns
\* 'N/A (Points<3)' exactly when its slice of distances holds fewer than 3
\* points.
C27_SentinelSet ==
    /\ NonMetalContext =>
          /\ HoleField \in NumericMasses \cup CodeSentinels
          /\ ElectronField \in NumericMasses \cup CodeSentinels
          /\ HoleField = xmass["vbm"]
          /\ ElectronField = xmass["cbm"]
    /\ (FitMade /\ xfit.band) =>
          (xmass[xfit.edge] = "N/A (Points<3)"
             <=> SliceLen(xfit.nd, xfit.start, xfit.end) < 3)

\* C27 witness: a semiconductor context whose hole field is the
\* insufficient-points sentinel and whose electron field is a number.
C27_Witness ==
    /\ NonMetalContext
    /\ HoleField = "N/A (Points<3)"
    /\ ElectronField \in NumericMasses
    /\ xfit.edge = "cbm" /\ Fitted

\* ---- the conversation of one material
\* C28 (as stated): after a fully successful material the conversation is
\* [system, user(prompt 1 + physics context), assistant(first response),
\* user(prompt 2), assistant(second response)].
C28_Claim ==
    (AfterRecord /\ LastRet = TRUE) =>
        history = << SystemMsg,
                     UserMsg(<<PROMPT_1, "\n\n">> \o Context(cur)),
                     AssistantMsg(resp_1),
                     UserMsg(<<PROMPT_2>>),
                     AssistantMsg(resp_2) >>

\* C28 (amended): each material's conversation starts from the fixed system
\* instruction followed by the user message of prompt 1 and its own physics
\* context, whatever the conversation before it held; after a fully
\* successful material it is exactly [system, user(prompt 1 + physics
\* context), assistant(first response), user(prompt 2)]: the second response
\* is written to the artifact and is not appended.
C28_ConversationShape ==
    /\ [](/\ history # <<>> => history[1] = SystemMsg
          /\ (AfterRecord /\ LastRet = TRUE) =>
                /\ Len(history) = 4
                /\ history[2] = UserMsg(<<PROMPT_1, "\n\n">> \o Context(cur))
                /\ history[3] = AssistantMsg(resp_1)
                /\ history[4] = UserMsg(<<PROMPT_2>>)
                /\ outdir[MdPath] = resp_2)
    /\ [][(gpc = "next" /\ gpc' = "round1") =>
             history' = <<SystemMsg, UserMsg(<<PROMPT_1, "\n\n">> \o Context(cur'))>>]_vars

\* C28 witness: the second material of a run has succeeded after the first
\* one did, and its conversation holds four messages.
C28_Witness ==
    /\ AfterRecord /\ LastRet = TRUE
    /\ Len(rets) >= 2 /\ rets[Len(rets) - 1] = TRUE
    /\ Len(history) = 4
    /\ history[3] = AssistantMsg(resp_1)

\* ---- progress of generation over re-runs
\* C29: when generation is run again and again over an unchanged input
\* directory and the collaborator always returns content, every record of
\* the directory whose extraction gives a context without the error marker
\* eventually has its artifact, however many other records fail on every
\* run.
C29_Claim ==
    \A f \in InputNames :
        <>((f \in {all_jsons[k] : k \in DOMAIN all_jsons} /\ f \notin bad)
              => outdir[MdName(MpIdOf(f))] \in Texts)

\* ---- termination of acquisition
Ended == batch \in {"reported", "raised"}

\* batch_download_bandstructures comes to its end, by its report or by an
\* exception leaving it
C30_Terminates == []<>Ended

\* write_lock is held only by a call inside one of the two with-blocks, a
\* call that has left its block by a fault included, and by none once the
\* batch is over
C30_LockReleased ==
    [](/\ \A t \in Tasks : write_lock = t => InWrite(t)
       /\ Ended => write_lock = 0)

\* when the batch is over every submitted identifier has exactly one outcome:
\* its call returned one of the five statuses and the loop counted it
C30_OneOutcome ==
    [](Ended => /\ \A t \in Tasks : pc[t] = "done" /\ status[t] \in Statuses
                /\ collected = Tasks
                /\ Total = NumTasks)

\* C30: with every database request returning or raising and the workers
\* scheduled fairly, batch_download_bandstructures terminates; write_lock is
\* released on every path, a fault inside the locked record write or log
\* append included, so that no worker waits for it forever; and every
\* submitted identifier receives exactly one outcome.
C30_Claim == C30_Terminates /\ C30_LockReleased /\ C30_OneOutcome

\* ---- one processing per identifier and invocation
\* C31: within one invocation of main no material identifier is processed
\* more than once: the records process_single_file was entered for have
\* pairwise different identifiers, and a save never opens an artifact that
\* was there when its process_single_file was entered (one written earlier
\* in the same invocation, the scan having left out every identifier with an
\* artifact); for every listing of INPUT_DIR, two names of one identifier
\* included.
C31_Claim ==
    InBatch =>
        /\ \A j, k \in 1..Entered :
              j < k => MpIdOf(target_files[j]) # MpIdOf(target_files[k])
        /\ gpc \in {"save", "write"} => outdirAtCall[MdPath] = "absent"

\* ---- aggregation in the archived downloaders
\* C32: in both archived downloaders every status a call of
\* download_single_bandstructure has returned has a counter in the results
\* dictionary, so counting a result never raises: the batch is left by an
\* exception only when a call itself ended by raising.
C32_Claim ==
    /\ \A t \in Tasks : pc[t] = "done" => status[t] \in DOMAIN results
    /\ batch \in {"raising", "raised"} => \E t \in Tasks : pc[t] = "raised"

====
